---- MODULE Spec2Model ----
(***************************************************************************)
(* A model of src/src/llm.py: the cost calculator (calculate_cost), the    *)
(* usage ledger (log_llm_call, clear_llm_log) and the two completion       *)
(* clients (get_completion, get_completion_structured) running as asyncio  *)
(* coroutines on one event loop.                                           *)
(*                                                                         *)
(* Granularity.  A coroutine gives up control only at an await: the remote *)
(* request (llm.py:118, llm.py:163) and asyncio.sleep (llm.py:191).        *)
(* Everything a coroutine runs between two awaits is one action here,      *)
(* log_llm_call included, which has no await in it.                        *)
(*                                                                         *)
(* Numbers.  A price is kept in hundredths of a dollar per million tokens  *)
(* (0.15 -> 15), so a cost is an integer number of 1e-8 dollars and        *)
(* (tokens / 1_000_000) * price is tokens * price exactly.  The floats of  *)
(* the code differ from that by a relative error below 1e-15, which the    *)
(* rendering f"{x:.6f}" can only see when the exact cost lies half way     *)
(* between two multiples of 1e-6: there the code rounds up for some inputs *)
(* and down for others (10 tokens at 0.15 render as 0.000002, 70 tokens as *)
(* 0.000010), so format_6f yields both neighbours.                         *)
(*                                                                         *)
(* The ledger file is a record [exists, rows]; a row is a tuple of cells   *)
(* and every cell is a string, as csv.writer writes it.                    *)
(***************************************************************************)
EXTENDS Integers, Sequences, FiniteSets, TLC

VARIABLES
    tasks,                  \* the coroutines: one completion call each
    log_file,               \* llm_usage_log.csv
    now,                    \* time.time() / datetime.now(), in ms
    reset_seen,             \* history: clear_llm_log has run
    completed_since_reset,  \* history: completions returned since the last clear_llm_log
    args,                   \* arguments of the direct calls to calculate_cost / log_llm_call
    cost_out,               \* what the last direct calculate_cost call gave
    direct_calls            \* history: number of direct log_llm_call calls

vars == <<tasks, log_file, now, reset_seen, completed_since_reset, args, cost_out, direct_calls>>

---------------------------------------------------------------------------
(* Bounds *)

NumTasks == 2
MaxRetries == 1
MaxTimedRetries == 2
MaxTime == 3
MaxDelay == 1
MaxCostTokens == 5
MaxDirectCalls == 2

Tasks == 1..NumTasks

\* Token counts the direct calls are tried on: a small range, and the 1000
\* and 500 tokens of the worked example.
CostTokens == (0..MaxCostTokens) \cup {500, 1000}

---------------------------------------------------------------------------
(* Cost calculator *)

MODEL_PRICING ==
    [m \in {"gpt-4o-mini", "gpt-4.1-mini", "gpt-4.1-nano", "gpt-4.1"} |->
        CASE m = "gpt-4o-mini"  -> [input |-> 15,  output |-> 60]
          [] m = "gpt-4.1-mini" -> [input |-> 40,  output |-> 160]
          [] m = "gpt-4.1-nano" -> [input |-> 10,  output |-> 40]
          [] m = "gpt-4.1"      -> [input |-> 200, output |-> 800]]

\* A model id that is no key of MODEL_PRICING.
UnknownModel == "gpt-4o"

AllModels == DOMAIN MODEL_PRICING \cup {UnknownModel}

\* The models the completion calls are made with: the default and an unknown one.
CallModels == {"gpt-4o-mini", UnknownModel}

\* calculate_cost with the two prices taken the wrong way round.
calculate_cost_swapped(model, input_tokens, output_tokens) ==
    IF model \notin DOMAIN MODEL_PRICING
    THEN [raised |-> "ValueError"]
    ELSE LET pricing == MODEL_PRICING[model]
             input_cost == input_tokens * pricing.output
             output_cost == output_tokens * pricing.input
             total_cost == input_cost + output_cost
         IN  [raised |-> "none", input_cost |-> input_cost,
              output_cost |-> output_cost, total_cost |-> total_cost]

\* calculate_cost falling back to a zero cost for a model it does not know.
calculate_cost_default(model, input_tokens, output_tokens) ==
    LET pricing == IF model \in DOMAIN MODEL_PRICING
                   THEN MODEL_PRICING[model]
                   ELSE [input |-> 0, output |-> 0]
        input_cost == input_tokens * pricing.input
        output_cost == output_tokens * pricing.output
        total_cost == input_cost + output_cost
    IN  [raised |-> "none", input_cost |-> input_cost,
         output_cost |-> output_cost, total_cost |-> total_cost]

calculate_cost(model, input_tokens, output_tokens) ==
    IF model \notin DOMAIN MODEL_PRICING
    THEN [raised |-> "ValueError"]
    ELSE LET pricing == MODEL_PRICING[model]
             input_cost == input_tokens * pricing.input
             output_cost == output_tokens * pricing.output
             total_cost == input_cost + output_cost
         IN  [raised |-> "none", input_cost |-> input_cost,
              output_cost |-> output_cost, total_cost |-> total_cost]

---------------------------------------------------------------------------
(* Rendering *)

\* str(n) of a non-negative int.
str(n) == ToString(n)

\* A number of micro-dollars written with six decimals: 1 -> "0.000001".
Micro6(micro) ==
    LET whole == micro \div 1000000
        frac == micro % 1000000
        pad == IF frac < 10 THEN "00000"
               ELSE IF frac < 100 THEN "0000"
               ELSE IF frac < 1000 THEN "000"
               ELSE IF frac < 10000 THEN "00"
               ELSE IF frac < 100000 THEN "0"
               ELSE ""
    IN  ToString(whole) \o "." \o pad \o ToString(frac)

\* f"{cost:.6f}": the renderings of a cost given in 1e-8 dollars.
format_6f(cost) ==
    LET q == cost \div 100
        r == cost % 100
    IN  IF r < 50 THEN {Micro6(q)}
        ELSE IF r > 50 THEN {Micro6(q + 1)}
        ELSE {Micro6(q), Micro6(q + 1)}

\* datetime.now().isoformat()
isoformat(t) == "T" \o ToString(t)

---------------------------------------------------------------------------
(* Usage ledger *)

HEADER ==
    <<"timestamp", "model", "function_name", "input_content", "output_content",
      "input_tokens", "output_tokens", "total_tokens", "latency_ms",
      "input_cost", "output_cost", "total_cost">>

Absent == [exists |-> FALSE, rows |-> <<>>]

\* clear_llm_log emptying the file instead of removing it.
truncate_if_exists(file) ==
    IF file.exists THEN [exists |-> TRUE, rows |-> <<>>] ELSE file

\* clear_llm_log removing the records and leaving a file with the header.
unlink_keep_header(file) ==
    IF file.exists THEN [exists |-> TRUE, rows |-> <<HEADER>>] ELSE file

\* clear_llm_log: unlink the file if it is there.
unlink_if_exists(file) ==
    IF file.exists THEN Absent ELSE file

\* The header written by every call, without the test that the file exists:
\* open(log_file, "w") empties the file.
write_header_always(file) ==
    [exists |-> TRUE, rows |-> <<HEADER>>]

\* llm.py:64-82: the header is written when the file does not exist.
write_header(file) ==
    IF ~file.exists THEN [exists |-> TRUE, rows |-> <<HEADER>>] ELSE file

\* llm.py:91-104: the cells of a record row, given the rendered costs.
record_row(timestamp, model, function_name, input_content, output_content, input_tokens, output_tokens, latency_ms, ic, oc, tc) ==
    <<isoformat(timestamp), model, function_name, input_content, output_content,
      str(input_tokens), str(output_tokens), str(input_tokens + output_tokens),
      str(latency_ms), ic, oc, tc>>

\* The row written with open(log_file, "w") instead of "a".
overwrite_row(file, row) ==
    [exists |-> TRUE, rows |-> <<row>>]

\* llm.py:88-105: open(log_file, "a") and one writerow.
append_row(file, row) ==
    [exists |-> TRUE, rows |-> Append(file.rows, row)]

\* log_llm_call: the outcomes of one call on `file` at time `timestamp`, each the
\* file it leaves and what it raised.
log_llm_call(file, timestamp, model, function_name, input_content, output_content, input_tokens, output_tokens, latency_ms) ==
    LET f1 == write_header(file)
        cost == calculate_cost(model, input_tokens, output_tokens)
    IN  IF cost.raised # "none"
        THEN {[file |-> f1, raised |-> cost.raised]}
        ELSE {[file |-> append_row(f1,
                          record_row(timestamp, model, function_name, input_content,
                                     output_content, input_tokens, output_tokens,
                                     latency_ms, ic, oc, tc)),
               raised |-> "none"] :
                 ic \in format_6f(cost.input_cost),
                 oc \in format_6f(cost.output_cost),
                 tc \in format_6f(cost.total_cost)}

\* Number of lines of a file, 0 when it is absent.
Lines(file) == IF file.exists THEN Len(file.rows) ELSE 0

---------------------------------------------------------------------------
(* Completion calls *)

NoError == [kind |-> "none", attempt |-> 0]

\* The token usage a response reports: a small one and that of the worked example.
Usages ==
    {[prompt_tokens |-> 4, completion_tokens |-> 1],
     [prompt_tokens |-> 1000, completion_tokens |-> 500]}

\* A coroutine that has not been called yet.  pc is where it stands: "idle",
\* "awaiting" (the remote request), "sleeping" (asyncio.sleep), "returned",
\* "raised".  start_time is kept while the request is awaited and wake while the
\* coroutine sleeps; the locals latency_ms and usage live within one action.
\* response is how the request of the current attempt ended ("none" until it
\* has); requests, sleeps, records_appended and header_written are history.
IdleTask ==
    [pc |-> "idle", fn |-> "none", model |-> "none", max_retries |-> 0,
     retry_delay |-> 0, attempt |-> 0, start_time |-> 0, wake |-> 0,
     result |-> "none", error |-> NoError, response |-> "none",
     requests |-> 0, sleeps |-> 0, records_appended |-> 0,
     header_written |-> FALSE]

\* The caller's arguments: each call has its own message and function name.
message(t) == "message" \o ToString(t)

function_name(t) == "caller" \o ToString(t)

\* What the remote service generates for a request: a new object each time.
content(t) == "content" \o ToString(t)

parsed_response(t, attempt) == "parsed" \o ToString(t) \o "." \o ToString(attempt)

\* A task after a log_llm_call outcome o on a file that was `before`.
logged(task, before, o) ==
    [task EXCEPT !.header_written = @ \/ ~before.exists,
                 !.records_appended = @ + (IF o.raised = "none" THEN 1 ELSE 0)]

\* llm.py:116-118: get_completion up to its await.
get_completion_start(model, time) ==
    [IdleTask EXCEPT !.pc = "awaiting", !.fn = "get_completion", !.model = model,
                     !.start_time = time, !.requests = 1]

\* get_completion catching the failure of its request and returning nothing.
get_completion_swallow(task, kind) ==
    [task EXCEPT !.pc = "returned", !.response = kind, !.start_time = 0]

\* llm.py:118: the awaited request raises; nothing catches it.
get_completion_raise(task, kind) ==
    [task EXCEPT !.pc = "raised", !.response = kind, !.start_time = 0,
                 !.error = [kind |-> kind, attempt |-> 0]]

\* get_completion returning the content whether or not log_llm_call raised.
get_completion_resume_lenient(task, t, file, time, usage) ==
    LET latency_ms == time - task.start_time
        got == [task EXCEPT !.response = "ok", !.start_time = 0]
    IN  {[file |-> o.file,
          task |-> [logged(got, file, o) EXCEPT
                       !.pc = "returned", !.result = content(t)]] :
           o \in log_llm_call(file, time, task.model, "get_completion", message(t), content(t), usage.prompt_tokens, usage.completion_tokens, latency_ms)}

\* llm.py:119-134: get_completion from the response on; the outcomes, each the
\* task and the file it leaves.
get_completion_resume(task, t, file, time, usage) ==
    LET latency_ms == time - task.start_time
        got == [task EXCEPT !.response = "ok", !.start_time = 0]
    IN  {[file |-> o.file,
          task |-> IF o.raised # "none"
                   THEN [logged(got, file, o) EXCEPT
                            !.pc = "raised",
                            !.error = [kind |-> o.raised, attempt |-> 0]]
                   ELSE [logged(got, file, o) EXCEPT
                            !.pc = "returned", !.result = content(t)]] :
           o \in log_llm_call(file, time, task.model, "get_completion", message(t), content(t), usage.prompt_tokens, usage.completion_tokens, latency_ms)}

\* llm.py:159-163: get_completion_structured up to the await of attempt 0.
get_completion_structured_start(model, max_retries, retry_delay, time) ==
    [IdleTask EXCEPT !.pc = "awaiting", !.fn = "get_completion_structured",
                     !.model = model, !.max_retries = max_retries,
                     !.retry_delay = retry_delay, !.start_time = time,
                     !.requests = 1]

\* The except clause retrying once more than max_retries allows.
except_clause_one_more(task, e, time) ==
    IF task.attempt <= task.max_retries
    THEN [task EXCEPT !.pc = "sleeping", !.error = e, !.start_time = 0,
                      !.wake = time + task.retry_delay, !.sleeps = @ + 1]
    ELSE [task EXCEPT !.pc = "raised", !.error = e, !.start_time = 0]

\* The except clause retrying the same attempt: the loop variable never advances.
except_clause_same_attempt(task, e, time) ==
    IF task.attempt < task.max_retries
    THEN [task EXCEPT !.pc = "awaiting", !.error = e, !.start_time = time]
    ELSE [task EXCEPT !.pc = "raised", !.error = e, !.start_time = 0]

\* The except clause with the exponential backoff its docstring speaks of.
except_clause_backoff(task, e, time) ==
    IF task.attempt < task.max_retries
    THEN [task EXCEPT !.pc = "sleeping", !.error = e, !.start_time = 0,
                      !.wake = time + task.retry_delay * (2 ^ task.attempt),
                      !.sleeps = @ + 1]
    ELSE [task EXCEPT !.pc = "raised", !.error = e, !.start_time = 0]

\* llm.py:189-194: the except clause, entered with exception e at `time`.
except_clause(task, e, time) ==
    IF task.attempt < task.max_retries
    THEN [task EXCEPT !.pc = "sleeping", !.error = e, !.start_time = 0,
                      !.wake = time + task.retry_delay, !.sleeps = @ + 1]
    ELSE [task EXCEPT !.pc = "raised", !.error = e, !.start_time = 0]

\* llm.py:163: the awaited request raises (validation or remote failure).
structured_raise(task, kind, time) ==
    except_clause([task EXCEPT !.response = kind],
                  [kind |-> kind, attempt |-> task.attempt], time)

\* llm.py:169-172: the response carries a refusal.
structured_refusal(task, time) ==
    except_clause([task EXCEPT !.response = "RefusalError"],
                  [kind |-> "RefusalError", attempt |-> task.attempt], time)

\* get_completion_structured returning the parsed response without logging it.
structured_resume_unlogged(task, t, file, time, usage) ==
    {[file |-> file,
      task |-> [task EXCEPT !.pc = "returned", !.response = "ok", !.start_time = 0,
                            !.result = parsed_response(t, task.attempt)]]}

\* llm.py:169-187: a response without refusal; the outcomes, each the task and
\* the file it leaves.
structured_resume(task, t, file, time, usage) ==
    LET latency_ms == time - task.start_time
        parsed == parsed_response(t, task.attempt)
        got == [task EXCEPT !.response = "ok", !.start_time = 0]
    IN  {[file |-> o.file,
          task |-> IF o.raised # "none"
                   THEN except_clause(logged(got, file, o),
                                      [kind |-> o.raised, attempt |-> task.attempt],
                                      time)
                   ELSE [logged(got, file, o) EXCEPT
                            !.pc = "returned", !.result = parsed]] :
           o \in log_llm_call(file, time, task.model, function_name(t), message(t), parsed, usage.prompt_tokens, usage.completion_tokens, latency_ms)}

\* The next attempt without time.time() being read again before its request.
next_attempt_stale_start(task, time) ==
    [task EXCEPT !.pc = "awaiting", !.attempt = @ + 1,
                 !.wake = 0, !.error = NoError, !.response = "none",
                 !.requests = @ + 1]

\* llm.py:191-192, 159-163: the sleep is over; the next attempt up to its await.
next_attempt(task, time) ==
    [task EXCEPT !.pc = "awaiting", !.attempt = @ + 1, !.start_time = time,
                 !.wake = 0, !.error = NoError, !.response = "none",
                 !.requests = @ + 1]

---------------------------------------------------------------------------
(* Actions *)

NoCost == [raised |-> "unset"]

DefaultArgs == [model |-> "gpt-4o-mini", input_tokens |-> 0, output_tokens |-> 0]

Init ==
    /\ tasks = [t \in Tasks |-> IdleTask]
    /\ log_file = Absent
    /\ now = 0
    /\ reset_seen = FALSE
    /\ completed_since_reset = 0
    /\ args = DefaultArgs
    /\ cost_out = NoCost
    /\ direct_calls = 0

Returned(task) == IF task.pc = "returned" THEN 1 ELSE 0

\* A step of task t to task record `task`, leaving the file `file`.
Step(t, task, file) ==
    /\ tasks' = [tasks EXCEPT ![t] = task]
    /\ log_file' = file
    /\ completed_since_reset' = completed_since_reset + Returned(task)
    /\ UNCHANGED <<now, reset_seen, args, cost_out, direct_calls>>

\* A caller starts get_completion(message(t), model).
CallPlain(t) ==
    \E model \in CallModels :
        /\ tasks[t].pc = "idle"
        /\ Step(t, get_completion_start(model, now), log_file)

\* The remote request of a plain completion fails.
PlainFails(t) ==
    /\ tasks[t].pc = "awaiting"
    /\ tasks[t].fn = "get_completion"
    /\ Step(t, get_completion_raise(tasks[t], "RemoteError"), log_file)

\* The remote request of a plain completion returns a response.
PlainResponds(t) ==
    \E usage \in Usages :
        /\ tasks[t].pc = "awaiting"
        /\ tasks[t].fn = "get_completion"
        /\ \E o \in get_completion_resume(tasks[t], t, log_file, now, usage) :
              Step(t, o.task, o.file)

\* A caller starts get_completion_structured with max_retries among `retries`
\* and retry_delay among `delays`.
CallStructured(t, retries, delays) ==
    \E model \in CallModels, max_retries \in retries, retry_delay \in delays :
        /\ tasks[t].pc = "idle"
        /\ Step(t, get_completion_structured_start(model, max_retries, retry_delay, now), log_file)

\* The remote request of a structured completion raises.
StructuredFails(t) ==
    \E kind \in {"ValidationError", "RemoteError"} :
        /\ tasks[t].pc = "awaiting"
        /\ tasks[t].fn = "get_completion_structured"
        /\ Step(t, structured_raise(tasks[t], kind, now), log_file)

\* The remote request of a structured completion returns a refusal.
StructuredRefused(t) ==
    /\ tasks[t].pc = "awaiting"
    /\ tasks[t].fn = "get_completion_structured"
    /\ Step(t, structured_refusal(tasks[t], now), log_file)

\* The remote request of a structured completion returns a parsed response.
StructuredResponds(t) ==
    \E usage \in Usages :
        /\ tasks[t].pc = "awaiting"
        /\ tasks[t].fn = "get_completion_structured"
        /\ \E o \in structured_resume(tasks[t], t, log_file, now, usage) :
              Step(t, o.task, o.file)

\* asyncio.sleep(retry_delay) is over.
SleepOver(t) ==
    /\ tasks[t].pc = "sleeping"
    /\ now >= tasks[t].wake
    /\ Step(t, next_attempt(tasks[t], now), log_file)

\* A millisecond passes.
Tick ==
    /\ now < MaxTime
    /\ now' = now + 1
    /\ UNCHANGED <<tasks, log_file, reset_seen, completed_since_reset, args, cost_out, direct_calls>>

clear_llm_log ==
    /\ log_file' = unlink_if_exists(log_file)
    /\ reset_seen' = TRUE
    /\ completed_since_reset' = 0
    /\ UNCHANGED <<tasks, now, args, cost_out, direct_calls>>

\* Spec: NumTasks completion calls in flight on one event loop, interleaved at
\* their awaits in every order, and clear_llm_log at any point between.  The
\* clock stands still in it (the orders of the steps are what it explores), so
\* its calls sleep for retry_delay = 0; SpecTime lets the clock run.
Next ==
    \/ \E t \in Tasks : CallPlain(t)
    \/ \E t \in Tasks : PlainFails(t)
    \/ \E t \in Tasks : PlainResponds(t)
    \/ \E t \in Tasks : CallStructured(t, 0..MaxRetries, {0})
    \/ \E t \in Tasks : StructuredFails(t)
    \/ \E t \in Tasks : StructuredRefused(t)
    \/ \E t \in Tasks : StructuredResponds(t)
    \/ \E t \in Tasks : SleepOver(t)
    \/ clear_llm_log

Spec == Init /\ [][Next]_vars

\* llm.py:118, 163: the remote request of call t completes, with a response or
\* with an exception.
RequestCompletes(t) ==
    \/ PlainFails(t)
    \/ PlainResponds(t)
    \/ StructuredFails(t)
    \/ StructuredRefused(t)
    \/ StructuredResponds(t)

\* The event loop's part: an awaited request completes (llm.py:118, 163) and an
\* awaited asyncio.sleep elapses (llm.py:191).  No call is ever obliged to
\* begin and clear_llm_log is never obliged to run.
Fairness ==
    \A t \in Tasks : WF_vars(RequestCompletes(t)) /\ WF_vars(SleepOver(t))

SpecLive == Init /\ [][Next]_vars /\ Fairness

\* SpecTime: one structured completion call with the clock running.
NextTime ==
    \/ CallStructured(1, 0..MaxTimedRetries, 0..MaxDelay)
    \/ StructuredFails(1)
    \/ StructuredRefused(1)
    \/ StructuredResponds(1)
    \/ SleepOver(1)
    \/ Tick

SpecTime == Init /\ [][NextTime]_vars

---------------------------------------------------------------------------
(* Direct calls of the cost calculator and of the ledger *)

ArgSets == [model : AllModels, input_tokens : CostTokens, output_tokens : CostTokens]

InitCost ==
    /\ tasks = [t \in Tasks |-> IdleTask]
    /\ log_file = Absent
    /\ now = 0
    /\ reset_seen = FALSE
    /\ completed_since_reset = 0
    /\ args \in ArgSets
    /\ cost_out = NoCost
    /\ direct_calls = 0

CallCalculateCost ==
    /\ cost_out' = calculate_cost(args.model, args.input_tokens, args.output_tokens)
    /\ UNCHANGED <<tasks, log_file, now, reset_seen, completed_since_reset, args, direct_calls>>

CallLogLlmCall ==
    /\ direct_calls < MaxDirectCalls
    /\ \E o \in log_llm_call(log_file, now, args.model, "direct", "input", "output", args.input_tokens, args.output_tokens, 0) :
          log_file' = o.file
    /\ direct_calls' = direct_calls + 1
    /\ UNCHANGED <<tasks, now, reset_seen, completed_since_reset, args, cost_out>>

NextCost ==
    \/ CallCalculateCost
    \/ CallLogLlmCall
    \/ clear_llm_log

SpecCost == InitCost /\ [][NextCost]_vars

---------------------------------------------------------------------------
(* Vocabulary of the properties *)

Structured(task) == task.fn = "get_completion_structured"

Plain(task) == task.fn = "get_completion"

KnownModel(task) == task.model \in DOMAIN MODEL_PRICING

\* The lines of the ledger below the header.
DataRows == IF log_file.exists THEN 2..Len(log_file.rows) ELSE {}

\* The record rows call t has in the ledger: its message is its own.
RowsOf(t) == {i \in DataRows : log_file.rows[i][4] = message(t)}

\* No call is in flight.
AllDone == \A t \in Tasks : tasks[t].pc \in {"idle", "returned", "raised"}

\* Row r is the record of a completion call t that reported `usage`: twelve
\* cells, each in the column the header names.
RecordOf(r, t, usage) ==
    LET task == tasks[t]
        pricing == MODEL_PRICING[task.model]
        input_cost == usage.prompt_tokens * pricing.input
        output_cost == usage.completion_tokens * pricing.output
    IN  /\ Len(r) = 12
        /\ r[4] = message(t)
        /\ \E ts \in 0..MaxTime : r[1] = isoformat(ts)
        /\ r[2] = task.model
        /\ r[3] = IF Plain(task) THEN "get_completion" ELSE function_name(t)
        /\ r[5] = IF Plain(task) THEN content(t) ELSE parsed_response(t, task.attempt)
        /\ r[6] = str(usage.prompt_tokens)
        /\ r[7] = str(usage.completion_tokens)
        /\ r[8] = str(usage.prompt_tokens + usage.completion_tokens)
        /\ \E ms \in 0..MaxTime : r[9] = str(ms)
        /\ r[10] \in format_6f(input_cost)
        /\ r[11] \in format_6f(output_cost)
        /\ r[12] \in format_6f(input_cost + output_cost)

\* Row r is a whole record row of some finished call.
WholeRecord(r) ==
    \E t \in Tasks, usage \in Usages :
        /\ tasks[t].pc = "returned"
        /\ KnownModel(tasks[t])
        /\ RecordOf(r, t, usage)

---------------------------------------------------------------------------
(* C1 *)

\* C1: in a structured completion whose first k attempts fail (refusal,
\* validation or remote failure) and whose attempt k+1 succeeds with a model of
\* the pricing table, the call returns the parsed response of that attempt and
\* has appended exactly one record, the one of that attempt; a call that has
\* not succeeded has appended none.
C1_OneRecordForTheSuccessfulAttempt ==
    \A t \in Tasks :
        LET task == tasks[t]
        IN  Structured(task) =>
              /\ (task.response = "ok" /\ KnownModel(task)) => task.pc = "returned"
              /\ task.pc = "returned" =>
                    /\ task.response = "ok"
                    /\ task.result = parsed_response(t, task.attempt)
                    /\ task.records_appended = 1
                    /\ task.requests = task.attempt + 1
                    /\ ~reset_seen =>
                          /\ Cardinality(RowsOf(t)) = 1
                          /\ \A i \in RowsOf(t) : log_file.rows[i][5] = task.result
              /\ task.pc # "returned" =>
                    /\ task.records_appended = 0
                    /\ ~reset_seen => RowsOf(t) = {}

\* A call that succeeded at its last attempt, after MaxRetries failed ones.
C1_Witness ==
    \E t \in Tasks :
        /\ Structured(tasks[t])
        /\ tasks[t].pc = "returned"
        /\ tasks[t].attempt = MaxRetries
        /\ tasks[t].max_retries = MaxRetries
        /\ ~reset_seen
        /\ Cardinality(RowsOf(t)) = 1

---------------------------------------------------------------------------
(* C2 *)

\* C2: a structured completion all of whose max_retries+1 attempts failed ends
\* raised with the failure of attempt number max_retries, and has left the
\* ledger as it was: it wrote no record row and no header row.
C2_AllAttemptsFail ==
    \A t \in Tasks :
        LET task == tasks[t]
        IN  (Structured(task) /\ task.pc = "raised") =>
              /\ task.error.kind # "none"
              /\ task.error.attempt = task.max_retries
              /\ task.records_appended = 0
              /\ ~task.header_written

---------------------------------------------------------------------------
(* C3 *)

\* C3: a structured completion whose request succeeded and whose model is not
\* in the pricing table has raised the unknown-model error at once: it does
\* not sleep and issues no further request.
C3_UnknownModelNotRetried ==
    \A t \in Tasks :
        LET task == tasks[t]
        IN  (Structured(task) /\ task.response = "ok" /\ ~KnownModel(task)) =>
              /\ task.pc = "raised"
              /\ task.error.kind = "ValueError"
              /\ task.sleeps = task.attempt

---------------------------------------------------------------------------
(* C4 *)

\* C4: the header row and the record row are written as one: the ledger is
\* never a header with no record row under it, and a completion call that
\* failed has written nothing to the ledger.
C4_HeaderNeverAlone ==
    /\ log_file.exists => (log_file.rows[1] = HEADER /\ Len(log_file.rows) >= 2)
    /\ \A t \in Tasks :
          tasks[t].pc = "raised" =>
              (~tasks[t].header_written /\ tasks[t].records_appended = 0)

---------------------------------------------------------------------------
(* C5 *)

\* C5: with the calls interleaved at their awaits in every order, the ledger
\* is absent, or is one header row followed by whole record rows; and once no
\* call is in flight and no clear_llm_log has run, it holds one record row per
\* call that returned, under a header that was written exactly once.
C5_AppendsNeverInterleave ==
    /\ ~log_file.exists => log_file.rows = <<>>
    /\ log_file.exists =>
          /\ Len(log_file.rows) >= 1
          /\ log_file.rows[1] = HEADER
          /\ \A i \in DataRows : WholeRecord(log_file.rows[i])
    /\ (AllDone /\ ~reset_seen) =>
          /\ Cardinality(DataRows) = Cardinality({t \in Tasks : tasks[t].pc = "returned"})
          /\ \A t \in Tasks : tasks[t].pc = "returned" => Cardinality(RowsOf(t)) = 1
          /\ Cardinality({t \in Tasks : tasks[t].header_written}) = (IF log_file.exists THEN 1 ELSE 0)
          /\ Cardinality({i \in 1..Lines(log_file) : log_file.rows[i] = HEADER}) = (IF log_file.exists THEN 1 ELSE 0)

\* Two calls have returned, the structured call 1 after a retry, and the row of
\* call 2 lies before the row of call 1: call 2 logged while call 1 was suspended.
C5_Witness ==
    /\ AllDone
    /\ ~reset_seen
    /\ Structured(tasks[1])
    /\ tasks[1].attempt = 1
    /\ tasks[1].pc = "returned"
    /\ tasks[2].pc = "returned"
    /\ Len(log_file.rows) = 3
    /\ log_file.rows[2][4] = message(2)
    /\ log_file.rows[3][4] = message(1)

---------------------------------------------------------------------------
(* C6 *)

\* C6: a plain completion issues exactly one remote request, never sleeps and
\* never retries; when the request fails the call is raised with that very
\* failure and has written nothing to the ledger.
C6_PlainFailsOnce ==
    \A t \in Tasks :
        LET task == tasks[t]
        IN  Plain(task) =>
              /\ task.requests = 1
              /\ task.attempt = 0
              /\ task.sleeps = 0
              /\ task.pc \in {"awaiting", "returned", "raised"}
              /\ task.response = "RemoteError" =>
                    /\ task.pc = "raised"
                    /\ task.error = [kind |-> "RemoteError", attempt |-> 0]
                    /\ task.result = "none"
                    /\ task.records_appended = 0
                    /\ ~task.header_written
                    /\ ~reset_seen => RowsOf(t) = {}

\* A plain completion whose request failed, beside a ledger other calls wrote.
C6_Witness ==
    \E t \in Tasks :
        /\ Plain(tasks[t])
        /\ tasks[t].response = "RemoteError"
        /\ tasks[t].pc = "raised"
        /\ log_file.exists

---------------------------------------------------------------------------
(* C7 *)

\* C7: after clear_llm_log and then one completion that returned, whatever the
\* ledger held before, the ledger is the header row and one record row, both
\* of twelve cells in the fixed order of columns.
C7_ResetThenOneCompletion ==
    (reset_seen /\ completed_since_reset = 1) =>
        /\ log_file.exists
        /\ Len(log_file.rows) = 2
        /\ log_file.rows[1] =
              <<"timestamp", "model", "function_name", "input_content",
                "output_content", "input_tokens", "output_tokens", "total_tokens",
                "latency_ms", "input_cost", "output_cost", "total_cost">>
        /\ WholeRecord(log_file.rows[2])

\* Two calls have returned, one of them before the clear_llm_log and one after.
C7_Witness ==
    /\ reset_seen
    /\ completed_since_reset = 1
    /\ \A t \in Tasks : tasks[t].pc = "returned"
    /\ Len(log_file.rows) = 2

---------------------------------------------------------------------------
(* C8 *)

\* File g holds all of file f, unchanged, as its first lines.
Extends(f, g) ==
    \/ ~f.exists
    \/ /\ g.exists
       /\ Len(g.rows) >= Len(f.rows)
       /\ SubSeq(g.rows, 1, Len(f.rows)) = f.rows

\* The header is the first line of file g and no other line of it.
HeaderOnce(g) ==
    g.exists => /\ Len(g.rows) >= 1
                /\ \A i \in 1..Len(g.rows) : (g.rows[i] = HEADER) <=> (i = 1)

\* C8: every step other than clear_llm_log leaves the ledger it found as a
\* prefix of the ledger it leaves, with the header as first row and nowhere else.
C8_AppendOnly ==
    [][clear_llm_log \/ (Extends(log_file, log_file') /\ HeaderOnce(log_file'))]_vars

\* Two record rows under the header, none of them removed by a clear_llm_log.
C8_Witness ==
    /\ ~reset_seen
    /\ Len(log_file.rows) = 3

---------------------------------------------------------------------------
(* C9 *)

\* The largest token count a direct call is tried on.
MaxTokenCount == CHOOSE n \in CostTokens : \A m \in CostTokens : m <= n

\* A rendered cost read back: the number of micro-dollars written as s.  A
\* token costs 10 micro-dollars at most (input and output of gpt-4.1 together).
ParseCost(s) == CHOOSE micro \in 0..(10 * MaxTokenCount + 1) : Micro6(micro) = s

\* C9: in every record row of the ledger the total_cost cell is the sum of the
\* input_cost cell and the output_cost cell, as written.
C9_PersistedCostsAddUp ==
    \A i \in DataRows :
        ParseCost(log_file.rows[i][12]) =
            ParseCost(log_file.rows[i][10]) + ParseCost(log_file.rows[i][11])

---------------------------------------------------------------------------
(* C10 *)

\* C10: for a model of the pricing table calculate_cost returns
\* input_tokens * input price / 1e6, output_tokens * output price / 1e6 and
\* their sum (here in 1e-8 dollars, with prices in hundredths of a dollar);
\* no cost is negative, neither component decreases when its token count
\* grows, and gpt-4o-mini with 1000 and 500 tokens gives 0.00015, 0.00030
\* and 0.00045.
C10_CostFormula ==
    (cost_out # NoCost /\ args.model \in DOMAIN MODEL_PRICING) =>
        LET price == MODEL_PRICING[args.model]
        IN  /\ cost_out.raised = "none"
            /\ cost_out.input_cost = args.input_tokens * price.input
            /\ cost_out.output_cost = args.output_tokens * price.output
            /\ cost_out.total_cost = cost_out.input_cost + cost_out.output_cost
            /\ cost_out.input_cost >= 0
            /\ cost_out.output_cost >= 0
            /\ \A n \in CostTokens :
                  n >= args.input_tokens =>
                      calculate_cost(args.model, n, args.output_tokens).input_cost >= cost_out.input_cost
            /\ \A n \in CostTokens :
                  n >= args.output_tokens =>
                      calculate_cost(args.model, args.input_tokens, n).output_cost >= cost_out.output_cost
            /\ (args.model = "gpt-4o-mini" /\ args.input_tokens = 1000 /\ args.output_tokens = 500) =>
                  (cost_out.input_cost = 15000 /\ cost_out.output_cost = 30000 /\ cost_out.total_cost = 45000)

\* calculate_cost has been called on the worked example.
C10_Witness ==
    /\ cost_out # NoCost
    /\ cost_out.raised = "none"
    /\ args = [model |-> "gpt-4o-mini", input_tokens |-> 1000, output_tokens |-> 500]

---------------------------------------------------------------------------
(* C11 *)

\* C11: for a model that is no key of the pricing table calculate_cost raises
\* the unknown-model error, whatever the token counts, (0, 0) included, and
\* gives no cost at all; the call leaves the ledger as it is.
C11_UnknownModelRaises ==
    /\ [](\A input_tokens \in CostTokens, output_tokens \in CostTokens :
             calculate_cost(UnknownModel, input_tokens, output_tokens) = [raised |-> "ValueError"])
    /\ []((cost_out # NoCost /\ args.model \notin DOMAIN MODEL_PRICING) =>
             (cost_out.raised = "ValueError" /\ DOMAIN cost_out = {"raised"}))
    /\ [][CallCalculateCost => log_file' = log_file]_vars

\* calculate_cost has been called with an unknown model and no tokens.
C11_Witness ==
    /\ cost_out = [raised |-> "ValueError"]
    /\ args.model = UnknownModel
    /\ args.input_tokens = 0
    /\ args.output_tokens = 0

---------------------------------------------------------------------------
(* C12 *)

Terminal(task) == task.pc \in {"returned", "raised"}

\* C12: a structured completion issues its requests one attempt after the
\* other, attempt 0 first: at least one and at most max_retries + 1; the
\* request of attempt n+1 is issued only from the sleep that follows a failed
\* attempt n < max_retries, and a call that has returned or raised issues none.
C12_BoundedAttempts ==
    /\ [](\A t \in Tasks :
            LET task == tasks[t]
            IN  Structured(task) =>
                  /\ task.requests = task.attempt + 1
                  /\ task.requests >= 1
                  /\ task.requests <= task.max_retries + 1
                  /\ task.max_retries = 0 => task.requests = 1
                  /\ task.pc = "sleeping" =>
                        (task.error.kind # "none" /\ task.error.attempt = task.attempt
                           /\ task.attempt < task.max_retries)
                  /\ task.pc = "raised" => task.attempt = task.max_retries)
    /\ [][\A t \in Tasks :
            /\ (Structured(tasks[t]) /\ tasks'[t].requests # tasks[t].requests) =>
                  /\ tasks[t].pc = "sleeping"
                  /\ tasks'[t].requests = tasks[t].requests + 1
                  /\ tasks'[t].attempt = tasks[t].attempt + 1
            /\ Terminal(tasks[t]) => tasks'[t] = tasks[t]]_vars

\* A structured call has raised after all its MaxRetries + 1 requests.
C12_Witness ==
    \E t \in Tasks :
        /\ Structured(tasks[t])
        /\ tasks[t].pc = "raised"
        /\ tasks[t].max_retries = MaxRetries
        /\ tasks[t].requests = MaxRetries + 1

---------------------------------------------------------------------------
(* C13 *)

---------------------------------------------------------------------------
(* C14 *)

\* C14: provided every awaited request completes and every awaited sleep
\* elapses, every structured completion that has begun eventually returns or
\* raises, whatever the other calls and clear_llm_log do in between; its
\* attempt number never passes max_retries.
C14_EventuallyTerminal ==
    /\ [](\A t \in Tasks :
            Structured(tasks[t]) => tasks[t].attempt \in 0..tasks[t].max_retries)
    /\ \A t \in Tasks :
            (Structured(tasks[t]) /\ tasks[t].pc \in {"awaiting", "sleeping"})
                ~> Terminal(tasks[t])

\* A structured call has raised after its last retry while another call is
\* still waiting for its request.
C14_Witness ==
    \E t \in Tasks, u \in Tasks :
        /\ t # u
        /\ Structured(tasks[t])
        /\ tasks[t].pc = "raised"
        /\ tasks[t].attempt = MaxRetries
        /\ tasks[u].pc = "awaiting"

---------------------------------------------------------------------------
(* C15 *)

\* C15: the record a structured completion appends when it returns carries the
\* token counts of the response of the attempt that returned, as one response
\* reports them, and a latency measured from the moment that attempt issued its
\* request: every attempt restarts the measurement, so neither earlier attempts
\* nor the sleeps between them are in it.
C15_WinningAttemptOnly ==
    /\ [](\A t \in Tasks :
            (Structured(tasks[t]) /\ tasks[t].pc = "awaiting") =>
                /\ tasks[t].start_time <= now
                /\ tasks[t].start_time >= tasks[t].attempt * tasks[t].retry_delay)
    /\ [][\A t \in Tasks :
            LET a == tasks[t]
                b == tasks'[t]
            IN  /\ (b.pc = "awaiting" /\ a.pc # "awaiting") => b.start_time = now
                /\ (b.pc = "awaiting" /\ a.pc = "awaiting") => b.start_time = a.start_time
                /\ (Structured(a) /\ a.pc = "awaiting" /\ b.pc = "returned") =>
                      /\ log_file'.exists
                      /\ Len(log_file'.rows) = (IF log_file.exists THEN Len(log_file.rows) ELSE 1) + 1
                      /\ LET r == log_file'.rows[Len(log_file'.rows)]
                         IN  /\ r[4] = message(t)
                             /\ r[5] = parsed_response(t, a.attempt)
                             /\ r[9] = str(now - a.start_time)
                             /\ \E usage \in Usages :
                                   /\ r[6] = str(usage.prompt_tokens)
                                   /\ r[7] = str(usage.completion_tokens)
                                   /\ r[8] = str(usage.prompt_tokens + usage.completion_tokens)]_vars

\* The second attempt of a call with a one-millisecond retry delay has just
\* returned, two milliseconds after the call began, and its record says 1.
C15_Witness ==
    /\ Structured(tasks[1])
    /\ tasks[1].pc = "returned"
    /\ tasks[1].attempt = 1
    /\ tasks[1].retry_delay = 1
    /\ now = 2
    /\ log_file.exists
    /\ Len(log_file.rows) = 2
    /\ log_file.rows[2][9] = "1"
    /\ log_file.rows[2][8] = "1500"

---------------------------------------------------------------------------
(* C16 *)

\* C16: clear_llm_log can always run and leaves the ledger absent: a present
\* ledger loses its header and all its rows, an absent one stays as it is, so
\* a second clear_llm_log changes nothing more; no call's state is touched.
\* The first record row appended to a ledger that holds none comes second,
\* right after the header.
C16_ResetLeavesAbsent ==
    /\ [](/\ ENABLED clear_llm_log
          /\ unlink_if_exists(log_file) = Absent
          /\ unlink_if_exists(unlink_if_exists(log_file)) = unlink_if_exists(log_file)
          /\ ~log_file.exists => unlink_if_exists(log_file) = log_file)
    /\ [][clear_llm_log => (log_file' = Absent /\ tasks' = tasks)]_vars
    /\ [][(Lines(log_file) <= 1 /\ Lines(log_file') >= 2) =>
            /\ Len(log_file'.rows) = 2
            /\ log_file'.rows[1] = HEADER
            /\ log_file'.rows[2] # HEADER
            /\ Len(log_file'.rows[2]) = 12]_vars

\* The record of a call that returned is gone and the ledger is the header and
\* the record of another call, which found no file and wrote the header.
C16_Witness ==
    \E t \in Tasks, u \in Tasks :
        /\ t # u
        /\ reset_seen
        /\ tasks[t].pc = "returned"
        /\ tasks[t].records_appended = 1
        /\ RowsOf(t) = {}
        /\ tasks[u].pc = "returned"
        /\ tasks[u].header_written
        /\ log_file.exists
        /\ Len(log_file.rows) = 2
        /\ log_file.rows[1] = HEADER
        /\ RowsOf(u) = {2}

---------------------------------------------------------------------------
(* C17 *)

\* The record rows of call t in a file.
RowsIn(file, t) == {i \in 2..Lines(file) : file.rows[i][4] = message(t)}

\* C17: a completion call, plain or structured, returns a result only in the
\* step that appends its record: a call that has returned has appended exactly
\* one record, that record is the last row of the ledger when the call returns
\* and stays its only row until a clear_llm_log, and a call whose log_llm_call
\* raised has no result and has not returned.
C17_RecordBeforeResult ==
    /\ [](\A t \in Tasks :
            LET task == tasks[t]
            IN  /\ task.pc = "returned" =>
                      /\ task.records_appended = 1
                      /\ task.response = "ok"
                      /\ task.result # "none"
                      /\ ~reset_seen => Cardinality(RowsOf(t)) = 1
                /\ task.pc # "returned" =>
                      (task.result = "none" /\ task.records_appended = 0)
                /\ (task.pc # "idle" /\ ~KnownModel(task)) => task.pc # "returned"
                /\ task.error.kind = "ValueError" => task.pc \in {"sleeping", "raised"})
    /\ [][\A t \in Tasks :
            LET a == tasks[t]
                b == tasks'[t]
            IN  /\ (a.pc # "returned" /\ b.pc = "returned") =>
                      /\ a.pc = "awaiting"
                      /\ RowsIn(log_file', t) = {Len(log_file'.rows)}
                      /\ Extends(log_file, log_file')
                      /\ Lines(log_file') = (IF log_file.exists THEN Lines(log_file) ELSE 1) + 1
                /\ (a.pc = "returned" /\ RowsIn(log_file', t) # RowsIn(log_file, t)) =>
                      (log_file' = Absent /\ reset_seen')
                /\ a.pc = "returned" => b = a]_vars

\* With no clear_llm_log so far, a plain call for an unpriced model has raised
\* out of log_llm_call with no result, and another call has returned with its
\* one record in the ledger.
C17_Witness ==
    \E t \in Tasks, u \in Tasks :
        /\ ~reset_seen
        /\ Plain(tasks[t])
        /\ tasks[t].pc = "raised"
        /\ tasks[t].error.kind = "ValueError"
        /\ tasks[t].response = "ok"
        /\ tasks[t].result = "none"
        /\ tasks[u].pc = "returned"
        /\ Cardinality(RowsOf(u)) = 1

---------------------------------------------------------------------------
(* C18 *)

\* C18: with clear_llm_log running at any point between the steps of calls in
\* flight, the ledger is always absent or one header row, first, followed by
\* record rows only: exactly the records appended since the last clear_llm_log,
\* at most one per call, under a header that some call wrote.
C18_WellFormedUnderReset ==
    /\ ~log_file.exists => (log_file.rows = <<>> /\ completed_since_reset = 0)
    /\ HeaderOnce(log_file)
    /\ Cardinality(DataRows) = completed_since_reset
    /\ \A t \in Tasks : Cardinality(RowsOf(t)) <= Returned(tasks[t])
    /\ \A i \in DataRows : \E t \in Tasks : i \in RowsOf(t)
    /\ log_file.exists => \E t \in Tasks : tasks[t].header_written

\* Call t wrote a header, failed and sleeps before its retry; clear_llm_log ran
\* during that sleep, and call u has since written the header again and its
\* record under it.
C18_Witness ==
    \E t \in Tasks, u \in Tasks :
        /\ t # u
        /\ tasks[t].pc = "sleeping"
        /\ tasks[t].header_written
        /\ tasks[u].pc = "returned"
        /\ tasks[u].header_written
        /\ reset_seen
        /\ log_file.exists
        /\ log_file.rows[1] = HEADER
        /\ RowsOf(u) = {2}
        /\ completed_since_reset = 1

====
